---- MODULE Spec2Model ----
(***************************************************************************)
(* The monthly projection engine of src/dividend_calculator.py:            *)
(* calculate_monthly_rates, project_investment and                         *)
(* calculate_yearly_dividends of class DividendCalculator.                 *)
(*                                                                         *)
(* Numbers.  The program computes in Python floats.  The model computes    *)
(* the same expressions, in the same order, exactly: a number is a sign, a *)
(* natural prime to 2, 3, 5 and 7 (an unbounded natural kept as a          *)
(* little-endian sequence of limbs) and the exponents of 2, 3, 5 and 7, so *)
(* that a value of the model is the real number the float approximates.    *)
(* Rounding error of the floats is not modelled.                           *)
(***************************************************************************)
EXTENDS Integers, Sequences, FiniteSets, TLC

(***************************************************************************)
(* Unbounded naturals: <<l1, ..., ln>> is l1 + l2*Base + ... , ln # 0.     *)
(***************************************************************************)
Base == 1000

Primes == <<2, 3, 5, 7>>

Caps == <<6, 3, 3, 1>>

Max(a, b) == IF a >= b THEN a ELSE b

Min(a, b) == IF a <= b THEN a ELSE b

Limb(a, i) == IF i <= Len(a) THEN a[i] ELSE 0

RECURSIVE Trim(_)
Trim(a) == IF Len(a) > 0 /\ a[Len(a)] = 0 THEN Trim(SubSeq(a, 1, Len(a) - 1)) ELSE a

\* Sequential passes over the limbs go sixteen limbs at a time, so that the
\* depth of the recursion stays small for numbers of hundreds of limbs.
RECURSIVE CarryOut(_, _, _, _)
CarryOut(a, i, hi, c) ==
    IF i > hi \/ c < 0 THEN c ELSE CarryOut(a, i + 1, hi, (a[i] + c) \div Base)

RECURSIVE CarryRun(_, _, _, _)
CarryRun(a, i, hi, c) ==
    IF i > hi \/ c < 0 THEN << >>
    ELSE <<(a[i] + c) % Base>> \o CarryRun(a, i + 1, hi, (a[i] + c) \div Base)

\* the limbs of a from i on, each reduced below Base, with carry c coming in
RECURSIVE Carry(_, _, _)
Carry(a, i, c) ==
    IF i > Len(a)
    THEN IF c = 0 THEN << >> ELSE <<c % Base>> \o Carry(a, i, c \div Base)
    ELSE CarryRun(a, i, Min(i + 15, Len(a)), c)
            \o Carry(a, i + 16, CarryOut(a, i, Min(i + 15, Len(a)), c))

NFromInt(k) == Trim(Carry(<<k>>, 1, 0))

NAdd(a, b) == Carry([i \in 1..Max(Len(a), Len(b)) |-> Limb(a, i) + Limb(b, i)], 1, 0)

RECURSIVE BorrowOut(_, _, _, _, _)
BorrowOut(a, b, i, hi, c) ==
    IF i > hi \/ c < 0 THEN c
    ELSE BorrowOut(a, b, i + 1, hi, IF a[i] - Limb(b, i) - c < 0 THEN 1 ELSE 0)

RECURSIVE BorrowRun(_, _, _, _, _)
BorrowRun(a, b, i, hi, c) ==
    IF i > hi \/ c < 0 THEN << >>
    ELSE LET t == a[i] - Limb(b, i) - c
         IN  IF t < 0 THEN <<t + Base>> \o BorrowRun(a, b, i + 1, hi, 1)
                      ELSE <<t>> \o BorrowRun(a, b, i + 1, hi, 0)

RECURSIVE Borrow(_, _, _, _)
Borrow(a, b, i, c) ==
    IF i > Len(a) \/ c < 0 THEN << >>
    ELSE BorrowRun(a, b, i, Min(i + 15, Len(a)), c)
            \o Borrow(a, b, i + 16, BorrowOut(a, b, i, Min(i + 15, Len(a)), c))

\* a - b for a >= b
NSub(a, b) == Trim(Borrow(a, b, 1, 0))

RECURSIVE CmpRun(_, _, _, _)
CmpRun(a, b, i, lo) ==
    IF i < lo THEN 0
    ELSE IF a[i] < b[i] THEN -1 ELSE IF a[i] > b[i] THEN 1 ELSE CmpRun(a, b, i - 1, lo)

RECURSIVE CmpFrom(_, _, _)
CmpFrom(a, b, i) ==
    IF i = 0 THEN 0
    ELSE IF SubSeq(a, Max(i - 15, 1), i) = SubSeq(b, Max(i - 15, 1), i)
         THEN CmpFrom(a, b, Max(i - 16, 0))
         ELSE CmpRun(a, b, i, Max(i - 15, 1))

NCmp(a, b) ==
    IF Len(a) < Len(b) THEN -1 ELSE IF Len(a) > Len(b) THEN 1 ELSE CmpFrom(a, b, Len(a))

RECURSIVE DotRun(_, _, _, _, _)
DotRun(a, b, k, i, hi) ==
    IF i > hi THEN 0 ELSE a[i] * b[k + 1 - i] + DotRun(a, b, k, i + 1, hi)

RECURSIVE Dot(_, _, _, _, _)
Dot(a, b, k, i, hi) ==
    IF i > hi THEN 0
    ELSE DotRun(a, b, k, i, Min(i + 15, hi)) + Dot(a, b, k, i + 16, hi)

NMul(a, b) ==
    IF Len(a) = 0 \/ Len(b) = 0 THEN << >>
    ELSE IF b = <<1>> THEN a
    ELSE IF a = <<1>> THEN b
    ELSE Carry([k \in 1..(Len(a) + Len(b) - 1) |->
                  Dot(a, b, k, Max(1, k + 1 - Len(b)), IF k < Len(a) THEN k ELSE Len(a))], 1, 0)

RECURSIVE ModRun(_, _, _, _, _)
ModRun(a, d, i, lo, r) ==
    IF i < lo \/ r < 0 THEN r ELSE ModRun(a, d, i - 1, lo, (r * Base + a[i]) % d)

RECURSIVE ModFrom(_, _, _, _)
ModFrom(a, d, i, r) ==
    IF i = 0 \/ r < 0 THEN r
    ELSE ModFrom(a, d, Max(i - 16, 0), ModRun(a, d, i, Max(i - 15, 1), r))

\* a mod d and a div d for a small divisor d (d * Base fits a machine integer)
NMod(a, d) == ModFrom(a, d, Len(a), 0)

RECURSIVE DivRun(_, _, _, _, _)
DivRun(a, d, i, lo, r) ==
    IF i < lo \/ r < 0 THEN << >>
    ELSE DivRun(a, d, i - 1, lo, (r * Base + a[i]) % d) \o <<(r * Base + a[i]) \div d>>

RECURSIVE DivFrom(_, _, _, _)
DivFrom(a, d, i, r) ==
    IF i = 0 \/ r < 0 THEN << >>
    ELSE DivFrom(a, d, Max(i - 16, 0), ModRun(a, d, i, Max(i - 15, 1), r))
            \o DivRun(a, d, i, Max(i - 15, 1), r)

NDiv(a, d) == Trim(DivFrom(a, d, Len(a), 0))

RECURSIVE GCD(_, _)
GCD(x, y) == IF y = 0 THEN x ELSE GCD(y, x % y)

\* the exponent of p in the machine integer n > 0, and p^k
RECURSIVE Valuation(_, _)
Valuation(n, p) == IF n % p = 0 THEN 1 + Valuation(n \div p, p) ELSE 0

RECURSIVE IntPow(_, _)
IntPow(p, k) == IF k = 0 THEN 1 ELSE p * IntPow(p, k - 1)

\* the exponents of the Primes in n, and the product of their powers
Valuations(n) == [i \in 1..4 |-> Valuation(n, Primes[i])]

Product(e) ==
    IntPow(2, e[1]) * IntPow(3, e[2]) * IntPow(5, e[3]) * IntPow(7, e[4])

\* 2^6 3^3 5^3 7: the largest product of the Primes taken out or put in at once
Smooth == Product(Caps)

(***************************************************************************)
(* Numbers: [neg, num, e] is (-1)^neg * num * 2^e[1] 3^e[2] 5^e[3] 7^e[4], *)
(* num a natural prime to 2, 3, 5 and 7 and the exponents integers: the    *)
(* rationals whose denominator is a product of these primes.  Every        *)
(* divisor of the runs explored (12, 4, 100, the share price 10 * 1.05^m)  *)
(* is such a product; a division by anything else is left undefined.       *)
(***************************************************************************)
\* move the factors 2, 3, 5, 7 of n > 0 into the exponents
RECURSIVE Strip(_, _)
Strip(n, e) ==
    LET g == GCD(NMod(n, Smooth), Smooth)
    IN  IF g = 1 THEN <<n, e>>
        ELSE Strip(NDiv(n, g), [i \in 1..4 |-> e[i] + Valuation(g, Primes[i])])

\* n * 2^d[1] 3^d[2] 5^d[3] 7^d[4] for exponents d >= 0
RECURSIVE ScaleUp(_, _)
ScaleUp(n, d) ==
    IF d = <<0, 0, 0, 0>> \/ Len(n) = 0 THEN n
    ELSE LET c == [i \in 1..4 |-> Min(d[i], Caps[i])]
         IN  ScaleUp(NMul(n, NFromInt(Product(c))), [i \in 1..4 |-> d[i] - c[i]])

RNorm(neg, n, e) ==
    IF Len(n) = 0 THEN [neg |-> FALSE, num |-> << >>, e |-> <<0, 0, 0, 0>>]
    ELSE LET r == Strip(n, e) IN [neg |-> neg, num |-> r[1], e |-> r[2]]

\* the rational p/q of two machine integers, p >= 0, q > 0 a product of Primes
RFrac(p, q) ==
    IF Product(Valuations(q)) # q THEN CHOOSE x \in {} : TRUE
    ELSE RNorm(FALSE, NFromInt(p), [i \in 1..4 |-> 0 - Valuations(q)[i]])

RInt(k) == RFrac(k, 1)

Zero == RInt(0)

One == RInt(1)

IsZero(x) == Len(x.num) = 0

RNeg(x) == IF IsZero(x) THEN x ELSE [x EXCEPT !.neg = ~x.neg]

RAdd(x, y) ==
    IF IsZero(x) THEN y
    ELSE IF IsZero(y) THEN x
    ELSE LET m == [i \in 1..4 |-> Min(x.e[i], y.e[i])]
             a == ScaleUp(x.num, [i \in 1..4 |-> x.e[i] - m[i]])
             b == ScaleUp(y.num, [i \in 1..4 |-> y.e[i] - m[i]])
         IN  IF x.neg = y.neg THEN RNorm(x.neg, NAdd(a, b), m)
             ELSE IF NCmp(a, b) >= 0 THEN RNorm(x.neg, NSub(a, b), m)
             ELSE RNorm(y.neg, NSub(b, a), m)

RSub(x, y) == RAdd(x, RNeg(y))

RMul(x, y) ==
    IF IsZero(x) \/ IsZero(y) THEN RNorm(FALSE, << >>, <<0, 0, 0, 0>>)
    ELSE [neg |-> x.neg # y.neg, num |-> NMul(x.num, y.num),
          e |-> [i \in 1..4 |-> x.e[i] + y.e[i]]]

\* x / y; like the float division, undefined for y = 0
RDiv(x, y) ==
    IF y.num # <<1>> THEN CHOOSE q \in {} : TRUE
    ELSE IF IsZero(x) THEN x
    ELSE [neg |-> x.neg # y.neg, num |-> x.num, e |-> [i \in 1..4 |-> x.e[i] - y.e[i]]]

REq(x, y) == x = y

RLe(x, y) == ~RSub(y, x).neg

RLt(x, y) == RSub(x, y).neg

RECURSIVE RPow(_, _)
RPow(x, k) == IF k = 0 THEN One ELSE RMul(x, RPow(x, k - 1))

\* the sum of a sequence of rationals, left to right
RECURSIVE SumFrom(_, _, _)
SumFrom(s, i, acc) ==
    IF i > Len(s) \/ Len(acc.e) = 0 THEN acc ELSE SumFrom(s, i + 1, RAdd(acc, s[i]))

RSum(s) == SumFrom(s, 1, Zero)

(***************************************************************************)
(* The assumptions record (get_user_inputs builds it; its ranges are the   *)
(* widgets' min_value / max_value).                                        *)
(***************************************************************************)
\* the holding periods explored are 1..MaxYears (the slider allows 1..30)
MaxYears == 2

\* the monthly growth factors (1 + r/100)^(1/12) whose 12th power is rational
RootTable == {One, RFrac(21, 20), RFrac(26, 25)}

\* the annual percentage r whose monthly factor is f: (1 + r/100)^(1/12) = f
AnnualPct(f) == RMul(RSub(RPow(f, 12), One), RInt(100))

\* x ** (1/12) for the x whose root is rational
Root12(x) == CHOOSE r \in RootTable : REq(RPow(r, 12), x)

Labels == <<"Baseline", "High", "Low">>

FrequencyTable == [Monthly |-> 12, Quarterly |-> 4, Annually |-> 1]

Frequencies == {"Monthly", "Quarterly", "Annually"}

\* a lookup that falls back to Monthly instead of raising
LookupDefault(table, key) == IF key \in DOMAIN table THEN <<table[key]>> ELSE <<12>>

\* table[key] of a dictionary: <<value>>, or << >> where Python raises KeyError
Lookup(table, key) == IF key \in DOMAIN table THEN <<table[key]>> ELSE << >>

\* neither lookup of calculate_monthly_rates (lines 104 and 110-114) raises
Valid(inp) ==
    /\ Lookup(FrequencyTable, inp.contribution_frequency) # << >>
    /\ Lookup(FrequencyTable, inp.dividend_frequency) # << >>

Record(sp, ns, hp, dy, sa, dg, ac, cf, df, re) ==
    [share_price |-> sp, num_shares |-> ns, holding_period |-> hp,
     annual_dividend_yield |-> dy, stock_appreciation |-> sa,
     dividend_growth_rate |-> dg, additional_contribution |-> ac,
     contribution_frequency |-> cf, dividend_frequency |-> df,
     reinvest_dividends |-> re]

\* The assumptions explored: one share price and share count (and the empty
\* position), the yields 12% and 6%, price appreciation and dividend growth of
\* 0 or a rate whose monthly factor is rational, contributions of 0 or 1200.
\*   - every pair of frequencies, reinvesting or not, with everything on;
\*   - no contributions, with and without appreciation (among them the
\*     spec's concrete scenario), over 1..MaxYears years;
\*   - dividend growth, over 1..MaxYears years: the yield is compounded
\*     every month, so the exact values are kept small by paying quarterly
\*     or annually, or monthly for one year;
\*   - the empty position; a frequency outside the table.
Assumptions ==
    LET sp == RInt(10)
        ns == RInt(100)
        sa == AnnualPct(RFrac(21, 20))
        dg == AnnualPct(RFrac(26, 25))
    IN  UNION {
          { Record(sp, ns, 1, RInt(12), sa, Zero, RInt(1200), cf, df, re) :
              cf \in Frequencies, df \in Frequencies, re \in BOOLEAN },
          { Record(sp, ns, hp, RInt(12), a, Zero, Zero, "Monthly", df, re) :
              hp \in 1..MaxYears, a \in {Zero, sa}, df \in {"Monthly", "Quarterly"},
              re \in BOOLEAN },
          { Record(sp, ns, hp, RInt(6), sa, dg, RInt(1200), "Quarterly", df, re) :
              hp \in 1..MaxYears, df \in {"Quarterly", "Annually"}, re \in BOOLEAN },
          { Record(sp, ns, 1, RInt(6), Zero, dg, Zero, "Monthly", "Monthly", re) :
              re \in BOOLEAN },
          { Record(sp, Zero, 1, RInt(12), sa, Zero, c, "Monthly", "Monthly", TRUE) :
              c \in {Zero, RInt(1200)} },
          { Record(sp, ns, 1, RInt(12), Zero, Zero, Zero, cf, df, TRUE) :
              cf \in {"Weekly", "Monthly"}, df \in {"Weekly", "Monthly"} }
        }

(***************************************************************************)
(* calculate_monthly_rates                                                 *)
(***************************************************************************)
\* the annual yield paid every period
BaseYieldAnnual(inp, dividend_payments_per_year) ==
    RDiv(inp.annual_dividend_yield, RInt(100))

\* line 116
BaseYield(inp, dividend_payments_per_year) ==
    RDiv(RDiv(inp.annual_dividend_yield, RInt(dividend_payments_per_year)), RInt(100))

\* the High and Low factors exchanged
ScenarioYieldsSwapped(base_yield) ==
    [Baseline |-> base_yield,
     High |-> RMul(base_yield, RFrac(85, 100)),
     Low |-> RMul(base_yield, RFrac(115, 100))]

\* lines 118-122
ScenarioYields(base_yield) ==
    [Baseline |-> base_yield,
     High |-> RMul(base_yield, RFrac(115, 100)),
     Low |-> RMul(base_yield, RFrac(85, 100))]

MonthlyRate(pct) == RSub(Root12(RAdd(One, RDiv(pct, RInt(100)))), One)

\* the tuple calculate_monthly_rates returns
MonthlyRates(inp) ==
    LET contribution_multiplier == Lookup(FrequencyTable, inp.contribution_frequency)[1]
        dividend_payments_per_year == Lookup(FrequencyTable, inp.dividend_frequency)[1]
    IN  << RDiv(inp.additional_contribution, RInt(contribution_multiplier)),
           MonthlyRate(inp.stock_appreciation),
           MonthlyRate(inp.dividend_growth_rate),
           ScenarioYields(BaseYield(inp, dividend_payments_per_year)),
           dividend_payments_per_year >>

VARIABLES
    inputs,                   \* the assumptions record
    pc,                       \* where run() is
    monthly_rates,            \* << >> or the tuple of calculate_monthly_rates
    error,                    \* "" or the exception that ended the run
    projection_data,          \* label -> the list of monthly values
    months_between_payments,
    label,                    \* index in Labels of the scenario being run
    month,
    total_shares,
    total_value,
    start_value,
    adj_dividend_yield,
    adj_share_price,
    monthly_dividend,
    values,                   \* << >> or <<final_principal, final_contributions,
                              \*            final_dividends, final_appreciation>>
    yearly_dividends          \* << >> or the list of calculate_yearly_dividends

vars == << inputs, pc, monthly_rates, error, projection_data, months_between_payments,
           label, month, total_shares, total_value, start_value, adj_dividend_yield,
           adj_share_price, monthly_dividend, values, yearly_dividends >>

scenario_vars == << label, month, total_shares, total_value, start_value,
                    adj_dividend_yield, adj_share_price, monthly_dividend >>

monthly_contribution == monthly_rates[1]

monthly_stock_appreciation == monthly_rates[2]

monthly_dividend_growth == monthly_rates[3]

monthly_dividend_yields == monthly_rates[4]

dividend_payments_per_year == monthly_rates[5]

\* the state when run() has the inputs: nothing computed; the locals of
\* project_investment are not bound yet and are never read before they are set
Init ==
    /\ inputs \in Assumptions
    /\ pc = "rates"
    /\ monthly_rates = << >>
    /\ error = ""
    /\ projection_data = [Baseline |-> << >>, High |-> << >>, Low |-> << >>]
    /\ months_between_payments = 0
    /\ label = 0
    /\ month = 0
    /\ total_shares = Zero
    /\ total_value = Zero
    /\ start_value = Zero
    /\ adj_dividend_yield = Zero
    /\ adj_share_price = Zero
    /\ monthly_dividend = Zero
    /\ values = << >>
    /\ yearly_dividends = << >>

\* calculate_monthly_rates returns
CalculateMonthlyRates ==
    /\ pc = "rates"
    /\ Valid(inputs)
    /\ monthly_rates' = MonthlyRates(inputs)
    /\ pc' = "project"
    /\ UNCHANGED << inputs, error, projection_data, months_between_payments,
                    scenario_vars, values, yearly_dividends >>

\* a dictionary lookup of calculate_monthly_rates raises KeyError, which run()
\* does not catch
CalculateMonthlyRatesRaises ==
    /\ pc = "rates"
    /\ ~Valid(inputs)
    /\ error' = "KeyError"
    /\ pc' = "failed"
    /\ UNCHANGED << inputs, monthly_rates, projection_data, months_between_payments,
                    scenario_vars, values, yearly_dividends >>

(***************************************************************************)
(* project_investment                                                      *)
(***************************************************************************)
\* the loop stops one month early
MonthsShort(inp) == inp.holding_period * 12 - 1

Months(inp) == inp.holding_period * 12

\* lines 128-130
EnterProjectInvestment ==
    /\ pc = "project"
    /\ projection_data' = [Baseline |-> << >>, High |-> << >>, Low |-> << >>]
    /\ months_between_payments' = 12 \div dividend_payments_per_year
    /\ label' = 1
    /\ pc' = "scenario"
    /\ UNCHANGED << inputs, monthly_rates, error, month, total_shares, total_value,
                    start_value, adj_dividend_yield, adj_share_price, monthly_dividend,
                    values, yearly_dividends >>

\* lines 132-136: the next label of monthly_dividend_yields
BeginScenario ==
    /\ pc = "scenario"
    /\ label <= Len(Labels)
    /\ total_shares' = inputs.num_shares
    /\ total_value' = RMul(inputs.share_price, inputs.num_shares)
    /\ start_value' = RMul(inputs.share_price, inputs.num_shares)
    /\ adj_dividend_yield' = monthly_dividend_yields[Labels[label]]
    /\ adj_share_price' = inputs.share_price
    /\ month' = 0
    /\ pc' = "month"
    /\ UNCHANGED << inputs, monthly_rates, error, projection_data, months_between_payments,
                    label, monthly_dividend, values, yearly_dividends >>

\* the yield grows in month 0 too
GrownYieldFromStart(m, yield) == RMul(yield, RAdd(One, monthly_dividend_growth))

\* line 139-140
GrownYield(m, yield) ==
    IF m > 0 THEN RMul(yield, RAdd(One, monthly_dividend_growth)) ELSE yield

\* line 143
DividendGate(m, between) == m % between = 0

\* the contribution lands at the start of its period
ContributionGateAtStart(m, inp) ==
    LET contribution_multiplier == Lookup(FrequencyTable, inp.contribution_frequency)[1]
    IN  m % (12 \div contribution_multiplier) = 0

\* lines 148-149
ContributionGate(m, inp) ==
    LET contribution_multiplier == Lookup(FrequencyTable, inp.contribution_frequency)[1]
    IN  (m + 1) % (12 \div contribution_multiplier) = 0

\* line 144
DividendAmount(value, yield) == RMul(value, yield)

\* the dividend is reinvested whatever reinvest_dividends says
SharesAfterAlwaysReinvesting(shares, pays, dividend, contributes, price) ==
    LET reinvested == IF pays THEN RAdd(shares, RDiv(dividend, price)) ELSE shares
    IN  IF contributes THEN RAdd(reinvested, RDiv(monthly_contribution, price))
        ELSE reinvested

\* the dividend is reinvested when reinvest_dividends is off
SharesAfterFlagInverted(shares, pays, dividend, contributes, price) ==
    LET reinvested == IF pays /\ ~inputs.reinvest_dividends
                      THEN RAdd(shares, RDiv(dividend, price)) ELSE shares
    IN  IF contributes THEN RAdd(reinvested, RDiv(monthly_contribution, price))
        ELSE reinvested

\* lines 145-146 and 150: the shares after the month's purchases
SharesAfter(shares, pays, dividend, contributes, price) ==
    LET reinvested == IF pays /\ inputs.reinvest_dividends
                      THEN RAdd(shares, RDiv(dividend, price)) ELSE shares
    IN  IF contributes THEN RAdd(reinvested, RDiv(monthly_contribution, price))
        ELSE reinvested

\* the price is divided by the monthly factor
Depreciated(price) == RDiv(price, RAdd(One, monthly_stock_appreciation))

\* line 152
Appreciated(price) == RMul(price, RAdd(One, monthly_stock_appreciation))

\* lines 138-154: one pass of the loop body
MonthStep ==
    /\ pc = "month"
    /\ LET yield == GrownYield(month, adj_dividend_yield)
           pays == DividendGate(month, months_between_payments)
           dividend == IF pays THEN DividendAmount(total_value, yield) ELSE monthly_dividend
           shares == SharesAfter(total_shares, pays, dividend,
                                 ContributionGate(month, inputs), adj_share_price)
           price == Appreciated(adj_share_price)
           value == RMul(shares, price)
       IN  /\ adj_dividend_yield' = yield
           /\ monthly_dividend' = dividend
           /\ total_shares' = shares
           /\ adj_share_price' = price
           /\ total_value' = value
           /\ projection_data' =
                [projection_data EXCEPT ![Labels[label]] = Append(@, value)]
    /\ month' = month + 1
    /\ IF month + 1 < Months(inputs)
       THEN pc' = "month" /\ label' = label
       ELSE pc' = "scenario" /\ label' = label + 1
    /\ UNCHANGED << inputs, monthly_rates, error, months_between_payments, start_value,
                    values, yearly_dividends >>

\* line 160
DividendMonths(n, between) == {i \in 0..(n - 1) : i % between = 0}

\* line 161; lists are 1-indexed here, 0-indexed in the program
FinalDividends(series, between) ==
    RSum([k \in 1..Len(series) |->
            IF (k - 1) \in DividendMonths(Len(series), between)
            THEN RMul(series[k], monthly_dividend_yields.Baseline) ELSE Zero])

\* the residual forgets the contributions
FinalAppreciationWithoutContributions(last, final_principal, final_contributions, final_dividends) ==
    RSub(RSub(last, final_principal), final_dividends)

\* line 163
FinalAppreciation(last, final_principal, final_contributions, final_dividends) ==
    RSub(RSub(RSub(last, final_principal), final_contributions), final_dividends)

\* lines 156-165
Summarize ==
    /\ pc = "scenario"
    /\ label > Len(Labels)
    /\ LET series == projection_data.Baseline
           final_principal == start_value
           final_contributions ==
               RMul(inputs.additional_contribution, RInt(inputs.holding_period))
           final_dividends == FinalDividends(series, months_between_payments)
       IN  values' = << final_principal, final_contributions, final_dividends,
                        FinalAppreciation(series[Len(series)], final_principal,
                                          final_contributions, final_dividends) >>
    /\ pc' = "yearly"
    /\ UNCHANGED << inputs, monthly_rates, error, projection_data,
                    months_between_payments, scenario_vars, yearly_dividends >>

(***************************************************************************)
(* calculate_yearly_dividends, as create_dividend_income_chart calls it    *)
(***************************************************************************)
\* the payments per year taken for the months between two payments
PaymentsPerYearAsMonths == [Monthly |-> 12, Quarterly |-> 4, Annually |-> 1]

\* lines 250-254
MonthsBetweenPayments == [Monthly |-> 1, Quarterly |-> 3, Annually |-> 12]

\* lines 258-264: the total of year `year` (0-based)
YearTotal(series, year, between) ==
    LET year_start == year * 12
        year_end == (year + 1) * 12
        year_values == SubSeq(series, year_start + 1, year_end)
    IN  RSum([k \in 1..12 |->
                IF (year_start + k - 1) % between = 0
                THEN RMul(year_values[((year_start + k - 1) % 12) + 1],
                          monthly_dividend_yields.Baseline)
                ELSE Zero])

YearlyDividends(series, dividend_frequency) ==
    [y \in 1..(Len(series) \div 12) |->
        YearTotal(series, y - 1, Lookup(MonthsBetweenPayments, dividend_frequency)[1])]

CalculateYearlyDividends ==
    /\ pc = "yearly"
    /\ yearly_dividends' = YearlyDividends(projection_data.Baseline, inputs.dividend_frequency)
    /\ pc' = "done"
    /\ UNCHANGED << inputs, monthly_rates, error, projection_data,
                    months_between_payments, scenario_vars, values >>

Next ==
    \/ CalculateMonthlyRates
    \/ CalculateMonthlyRatesRaises
    \/ EnterProjectInvestment
    \/ BeginScenario
    \/ MonthStep
    \/ Summarize
    \/ CalculateYearlyDividends

Spec == Init /\ [][Next]_vars
\* run() is one synchronous call chain: while it has neither returned nor
\* raised, the interpreter executes its next statement.  Running is the
\* disjunction of the guards of Next, and Advance the move of the control
\* position that every action of Next makes.
Running == pc \in {"rates", "project", "scenario", "month", "yearly"}

Advance ==
    /\ Running
    /\ pc' \in {"project", "scenario", "month", "yearly", "done", "failed"}
    /\ month' \in 0..(inputs.holding_period * 12)
    /\ label' \in 0..4

LiveSpec == Spec /\ WF_<<pc, month, label>>(Advance)

(***************************************************************************)
(* The properties checked.                                                 *)
(***************************************************************************)
Baseline == projection_data.Baseline

Last(series) == series[Len(series)]

Summarized == Len(values) = 4

\* C1: the four components project_investment returns (final_principal,
\* final_contributions, final_dividends, final_appreciation) sum to the last
\* entry of the Baseline series.
C1_ComponentsSumToLast ==
    Summarized =>
        REq(RAdd(RAdd(RAdd(values[1], values[2]), values[3]), values[4]), Last(Baseline))

C1_Witness ==
    /\ pc = "done"
    /\ \A i \in 1..4 : ~IsZero(values[i])
    /\ ~values[4].neg

\* C2: each of the four components is non-negative; in particular the
\* residual final_appreciation is never below zero.
C2_ComponentsNonNegative ==
    Summarized => \A i \in 1..4 : ~values[i].neg

\* C3: the final value of the High series is >= that of the Baseline series,
\* which is >= that of the Low series.
C3_ScenarioOrder ==
    Summarized =>
        /\ RLe(Last(projection_data.Low), Last(Baseline))
        /\ RLe(Last(Baseline), Last(projection_data.High))

C3_Witness ==
    /\ pc = "done"
    /\ inputs.reinvest_dividends
    /\ RLt(Last(projection_data.Low), Last(Baseline))
    /\ RLt(Last(Baseline), Last(projection_data.High))

\* C4: every scenario's series is non-decreasing: totalValue[m] >=
\* totalValue[m-1] for every month m >= 1 (every entry of the finished
\* series, and the newest entry of a series while it grows).
C4_SeriesNonDecreasing ==
    \A l \in DOMAIN projection_data :
        \A k \in 2..Len(projection_data[l]) :
            (pc = "done" \/ k = Len(projection_data[l])) =>
                RLe(projection_data[l][k - 1], projection_data[l][k])

C4_Witness ==
    /\ pc = "done"
    /\ ~IsZero(inputs.stock_appreciation)
    /\ \A l \in DOMAIN projection_data :
          \A k \in 2..Len(projection_data[l]) :
              RLt(projection_data[l][k - 1], projection_data[l][k])

\* C5: for valid assumptions the run terminates, and then each of the three
\* series holds exactly holding_period * 12 entries; no series ever holds
\* more.
C5_CompleteSeries ==
    /\ [](\A l \in DOMAIN projection_data :
            Len(projection_data[l]) <= inputs.holding_period * 12)
    /\ (Valid(inputs) =>
          <>(/\ pc = "done"
             /\ \A l \in DOMAIN projection_data :
                   Len(projection_data[l]) = inputs.holding_period * 12))

C5_Witness ==
    /\ pc = "done"
    /\ inputs.holding_period = 2
    /\ \A l \in DOMAIN projection_data : Len(projection_data[l]) = 24
\* the locals of the scenario loop are bound
InScenario == pc \in {"month", "yearly", "done"} \/ (pc = "scenario" /\ label > 1)

\* the entries of a series a state answers for: all of them once the run is
\* done, the newest one while the series grows
Checked(series, k) == k \in 1..Len(series) /\ (pc = "done" \/ k = Len(series))

\* C6: with reinvest_dividends false and no contribution, total_shares stays
\* num_shares in every month of every scenario and totalValue[m] =
\* share_price * num_shares * (1 + monthly_stock_appreciation)^(m+1); with
\* stock_appreciation = 0 as well the series is flat at share_price * num_shares.
C6_AppreciationOnly ==
    (/\ Valid(inputs)
     /\ ~inputs.reinvest_dividends
     /\ IsZero(inputs.additional_contribution)) =>
        /\ InScenario => REq(total_shares, inputs.num_shares)
        /\ \A l \in DOMAIN projection_data :
              \A k \in 1..Len(projection_data[l]) :
                 Checked(projection_data[l], k) =>
                    /\ REq(projection_data[l][k],
                           RMul(RMul(inputs.share_price, inputs.num_shares),
                                RPow(RAdd(One, monthly_stock_appreciation), k)))
                    /\ IsZero(inputs.stock_appreciation) =>
                          REq(projection_data[l][k],
                              RMul(inputs.share_price, inputs.num_shares))

C6_Witness ==
    /\ pc = "done"
    /\ ~inputs.reinvest_dividends
    /\ IsZero(inputs.additional_contribution)
    /\ ~IsZero(inputs.stock_appreciation)
    /\ ~IsZero(inputs.annual_dividend_yield)
    /\ inputs.holding_period = 2
    /\ RLt(RMul(inputs.share_price, inputs.num_shares), Last(Baseline))

\* the spec's concrete scenario
Concrete ==
    Record(RInt(10), RInt(100), 1, RInt(12), Zero, Zero, Zero, "Monthly", "Monthly", TRUE)

\* C7: with monthly dividends, reinvested, no appreciation, no dividend growth
\* and no contribution, Baseline[m] = share_price * num_shares * (1 + y)^(m+1)
\* with y = annual_dividend_yield / 12 / 100.  For the concrete scenario the
\* month-0 dividend is 10, total_shares becomes 101, Baseline[0] = 1010 and
\* the final value is 1000 * 1.01^12.
C7_MonthlyCompounding ==
    /\ (/\ Valid(inputs)
        /\ inputs.dividend_frequency = "Monthly"
        /\ inputs.reinvest_dividends
        /\ IsZero(inputs.stock_appreciation)
        /\ IsZero(inputs.dividend_growth_rate)
        /\ IsZero(inputs.additional_contribution)) =>
          \A k \in 1..Len(Baseline) :
             Checked(Baseline, k) =>
                REq(Baseline[k],
                    RMul(RMul(inputs.share_price, inputs.num_shares),
                         RPow(RAdd(One, RDiv(RDiv(inputs.annual_dividend_yield, RInt(12)),
                                             RInt(100))), k)))
    /\ inputs = Concrete =>
          /\ (pc = "month" /\ label = 1 /\ month = 1) =>
                /\ REq(monthly_dividend, RInt(10))
                /\ REq(total_shares, RInt(101))
          /\ Len(Baseline) >= 1 => REq(Baseline[1], RInt(1010))
          /\ Len(Baseline) = 12 =>
                REq(Baseline[12], RMul(RInt(1000), RPow(RFrac(101, 100), 12)))

C7_Witness ==
    /\ inputs = Concrete
    /\ pc = "done"
    /\ REq(Last(Baseline), RMul(RInt(1000), RPow(RFrac(101, 100), 12)))

\* the months of year y (1-based) of the holding period, 0-based, on which
\* the dividend-payment gate is open
GateMonths(y) == {m \in ((y - 1) * 12)..(y * 12 - 1) : m % months_between_payments = 0}

\* the sum of series[m] * yield over the months of S, in increasing order
RECURSIVE Rollup(_, _, _)
Rollup(series, S, m) ==
    IF m >= Len(series) THEN Zero
    ELSE RAdd(IF m \in S THEN RMul(series[m + 1], monthly_dividend_yields.Baseline) ELSE Zero,
              Rollup(series, S, m + 1))

\* C8: the yearly rollup of the Baseline series has exactly holding_period
\* figures; figure y is the sum of value * base yield over the gate-open
\* months of the y-th 12-month block; and the figures add up to
\* final_dividends.
C8_YearlyRollup ==
    pc = "done" =>
        /\ Len(yearly_dividends) = inputs.holding_period
        /\ \A y \in 1..Len(yearly_dividends) :
              REq(yearly_dividends[y], Rollup(Baseline, GateMonths(y), 0))
        /\ REq(RSum(yearly_dividends), values[3])

C8_Witness ==
    /\ pc = "done"
    /\ inputs.holding_period = 2
    /\ inputs.dividend_frequency = "Quarterly"
    /\ Len(yearly_dividends) = 2
    /\ RLt(Zero, yearly_dividends[1])
    /\ RLt(yearly_dividends[1], yearly_dividends[2])

\* C9: with a contribution or dividend frequency outside Monthly / Quarterly /
\* Annually the rate derivation fails with an error (Python's KeyError) that
\* reaches the caller: no rate tuple is produced, no projection step runs,
\* nothing is summarized, and no run that starts from a supported pair of
\* frequencies reports an error.
C9_InvalidFrequencyFails ==
    /\ (\/ inputs.contribution_frequency \notin {"Monthly", "Quarterly", "Annually"}
        \/ inputs.dividend_frequency \notin {"Monthly", "Quarterly", "Annually"}) =>
          /\ pc \in {"rates", "failed"}
          /\ pc = "failed" => error = "KeyError"
          /\ monthly_rates = << >>
          /\ \A l \in DOMAIN projection_data : projection_data[l] = << >>
          /\ values = << >>
          /\ yearly_dividends = << >>
    /\ (/\ inputs.contribution_frequency \in {"Monthly", "Quarterly", "Annually"}
        /\ inputs.dividend_frequency \in {"Monthly", "Quarterly", "Annually"}) =>
          /\ error = ""
          /\ pc # "failed"

C9_Witness ==
    /\ pc = "failed"
    /\ error = "KeyError"
    /\ inputs.contribution_frequency = "Monthly"
    /\ inputs.dividend_frequency = "Weekly"

\* C10: in every scenario and month m the step is dividend, contribution,
\* appreciation, valuation: the dividend is paid only when m mod
\* months_between_payments = 0 and is the prior month's closing value (the
\* starting value at m = 0) times the current yield; the contribution lands
\* only when (m+1) mod monthsBetweenContributions = 0; both buy shares at the
\* pre-appreciation price share_price * (1 + rate)^m, so the shares the
\* contribution buys are not in the month's dividend base; then the price is
\* multiplied by (1 + rate) and total_shares * adj_share_price is appended.
C10_StepOrder ==
    [][pc = "month" =>
        LET m == month
            series == projection_data[Labels[label]]
            rate == RAdd(One, monthly_stock_appreciation)
            before == RMul(inputs.share_price, RPow(rate, m))
            closing == IF m = 0 THEN RMul(inputs.share_price, inputs.num_shares)
                       ELSE series[m]
            pays == m % months_between_payments = 0
            between == CASE inputs.contribution_frequency = "Monthly" -> 1
                         [] inputs.contribution_frequency = "Quarterly" -> 3
                         [] inputs.contribution_frequency = "Annually" -> 12
            contributes == (m + 1) % between = 0
        IN  \A dividend \in {RMul(closing, adj_dividend_yield')} :
            \A reinvested \in {IF pays /\ inputs.reinvest_dividends
                                THEN RDiv(dividend, before) ELSE Zero} :
            \A contributed \in {IF contributes THEN RDiv(monthly_contribution, before)
                                 ELSE Zero} :
            \A bought \in {RAdd(total_shares, reinvested)} :
                /\ REq(adj_share_price, before)
                /\ pays => REq(monthly_dividend', dividend)
                /\ REq(total_shares', RAdd(bought, contributed))
                /\ REq(adj_share_price', RMul(before, rate))
                /\ REq(total_value', RMul(total_shares', adj_share_price'))
                /\ projection_data' =
                     [projection_data EXCEPT ![Labels[label]] = Append(series, total_value')]
                /\ Len(series) = m
    ]_vars

\* month 3 of a run with quarterly dividends and monthly contributions has
\* paid and reinvested a dividend and taken a contribution
C10_Witness ==
    /\ pc = "month"
    /\ month = 4
    /\ inputs.dividend_frequency = "Quarterly"
    /\ inputs.contribution_frequency = "Monthly"
    /\ inputs.reinvest_dividends
    /\ ~IsZero(inputs.stock_appreciation)
    /\ ~IsZero(inputs.additional_contribution)
    /\ RLt(inputs.num_shares, total_shares)

\* C11: within a scenario the yield is not grown at month 0 and is multiplied
\* by (1 + monthly_dividend_growth) at the start of every month m > 0, whether
\* or not the dividend gate is open, so the yield of month m, which prices a
\* payment of that month, is the scenario's base yield times
\* (1 + monthly_dividend_growth)^m; each scenario starts from its base yield.
C11_YieldGrowth ==
    [][/\ pc = "month" =>
            \A grown \in {RMul(monthly_dividend_yields[Labels[label]],
                               RPow(RAdd(One, monthly_dividend_growth), month))} :
                /\ REq(adj_dividend_yield', grown)
                /\ month = 0 => REq(adj_dividend_yield', adj_dividend_yield)
                /\ month > 0 =>
                      REq(adj_dividend_yield',
                          RMul(adj_dividend_yield, RAdd(One, monthly_dividend_growth)))
                /\ month % months_between_payments = 0 =>
                      REq(monthly_dividend', RMul(total_value, grown))
       /\ (pc = "scenario" /\ pc' = "month") =>
            REq(adj_dividend_yield', monthly_dividend_yields[Labels[label]])
    ]_vars

\* the second scenario of a quarterly payer with dividend growth, after month
\* 1, whose gate was closed: the yield has grown past the scenario's base
C11_Witness ==
    /\ pc = "month"
    /\ label = 2
    /\ month = 2
    /\ inputs.dividend_frequency = "Quarterly"
    /\ ~IsZero(inputs.dividend_growth_rate)
    /\ REq(adj_dividend_yield,
           RMul(monthly_dividend_yields.High, RAdd(One, monthly_dividend_growth)))
    /\ RLt(monthly_dividend_yields.High, adj_dividend_yield)

\* the shares held after k months when only contributions buy shares: ns
\* shares at the start, a contribution every between months at the price
\* sp * growth^m of its month m
RECURSIVE SharesWithoutDividends(_, _, _, _, _, _)
SharesWithoutDividends(sp, ns, growth, contribution, between, k) ==
    IF k = 0 THEN ns
    ELSE LET before == SharesWithoutDividends(sp, ns, growth, contribution, between, k - 1)
         IN  IF k % between = 0
             THEN RAdd(before, RDiv(contribution, RMul(sp, RPow(growth, k - 1))))
             ELSE before

\* the value after k months of a position that only contributions add to, from
\* the inputs that are not about dividends
ValueWithoutDividends(sp, ns, sa, ac, cf, k) ==
    \* growth and contribution are bound to their values
    LET value[growth \in {RAdd(One, MonthlyRate(sa))},
              contribution \in {RDiv(ac, RInt(FrequencyTable[cf]))}] ==
            RMul(SharesWithoutDividends(sp, ns, growth, contribution,
                                        12 \div FrequencyTable[cf], k),
                 RMul(sp, RPow(growth, k)))
    IN  value[RAdd(One, MonthlyRate(sa)), RDiv(ac, RInt(FrequencyTable[cf]))]

\* two assumption records that differ at most in the dividend inputs
SameButDividends(a, b) ==
    /\ a.share_price = b.share_price
    /\ a.num_shares = b.num_shares
    /\ a.holding_period = b.holding_period
    /\ a.stock_appreciation = b.stock_appreciation
    /\ a.additional_contribution = b.additional_contribution
    /\ a.contribution_frequency = b.contribution_frequency
    /\ a.reinvest_dividends = b.reinvest_dividends

\* C12: with reinvest_dividends false the dividend yield has no influence on
\* the projected value: the Baseline, High and Low series are identical month
\* by month, and every value is a function of share_price, num_shares,
\* stock_appreciation, additional_contribution and contribution_frequency
\* alone, so that two runs differing only in annual_dividend_yield,
\* dividend_growth_rate or dividend_frequency produce the same series.
C12_YieldIndependence ==
    (Valid(inputs) /\ ~inputs.reinvest_dividends) =>
        /\ \A l \in DOMAIN projection_data :
              \A k \in 1..Len(projection_data[l]) :
                 /\ k <= Len(Baseline)
                 /\ REq(projection_data[l][k], Baseline[k])
        /\ \A k \in 1..Len(Baseline) :
              Checked(Baseline, k) =>
                 REq(Baseline[k],
                     ValueWithoutDividends(inputs.share_price, inputs.num_shares,
                                           inputs.stock_appreciation,
                                           inputs.additional_contribution,
                                           inputs.contribution_frequency, k))
        /\ pc = "done" =>
              /\ projection_data.High = Baseline
              /\ projection_data.Low = Baseline

\* a finished run without reinvestment, with a yield, dividend growth and
\* contributions, for which another explored record differs in the yield and
\* the dividend growth only
C12_Witness ==
    /\ pc = "done"
    /\ ~inputs.reinvest_dividends
    /\ ~IsZero(inputs.annual_dividend_yield)
    /\ ~IsZero(inputs.dividend_growth_rate)
    /\ ~IsZero(inputs.additional_contribution)
    /\ RLt(inputs.num_shares, total_shares)
    /\ projection_data.High = projection_data.Low
    /\ \E other \in Assumptions :
          /\ SameButDividends(other, inputs)
          /\ other.annual_dividend_yield # inputs.annual_dividend_yield
          /\ other.dividend_growth_rate # inputs.dividend_growth_rate
====
